---------------------------- MODULE Spec2Model ----------------------------
(***************************************************************************)
(* The job lifecycle and event-stream controller of the HomePage component *)
(* (page.tsx / page-old.tsx): React state, the EventSource handle kept in  *)
(* eventSourceRef, the create-job request of onSubmit and the callbacks of *)
(* the event channel.                                                      *)
(*                                                                         *)
(* Conventions.                                                            *)
(*  - JavaScript strings that are only compared are TLA+ strings; the text *)
(*    that parseTeamIds takes apart is a sequence of one-character strings.*)
(*  - null is NULL, undefined is UNDEF; both are falsy, as is "".          *)
(*  - A callback runs to completion (single-threaded event loop), so each  *)
(*    handler is one action.  The awaits of onSubmit and fetchFields split *)
(*    them into a first part and a continuation.                           *)
(*  - A closure reads the state of the render that created it: the         *)
(*    invocation of onSubmit keeps the startStream of its render, which    *)
(*    keeps that render's `result` (dependency list [handleStreamEvent,    *)
(*    result]).                                                            *)
(*  - After the component is unmounted React drops state updates; refs and *)
(*    EventSource objects are ordinary objects and keep changing.          *)
(*  - An EventSource that was closed dispatches no further message or      *)
(*    error event.                                                         *)
(***************************************************************************)
EXTENDS Integers, Sequences, FiniteSets, TLC

(***************************************************************************)
(* Bounds of the model                                                     *)
(***************************************************************************)
MaxSubmits == 2      \* valid submissions (create-job requests) per session
MaxLogs == 2         \* log lines kept per job
MaxInputLen == 3     \* characters of a typed club-id text (InputSpec)
MaxPathLen == 3      \* characters of a result's file path (DownloadSpec)

(***************************************************************************)
(* Values                                                                  *)
(***************************************************************************)
NULL == "null"
UNDEF == "undefined"

Falsy(v) == v \in {NULL, UNDEF, ""}

\* the string literals of the component
StatusIdle == "Idle"
StatusStarting == "Starting..."
StatusRunning == "running"
StatusFailed == "failed"
StatusCompleted == "completed"
ErrNoIds == "Provide at least one club ID."
ErrFields == "Unable to load workbook fields. Refresh and try again."
ErrLost == "Connection to workflow stream lost."
ErrWorkflow == "Workflow failed"
ErrUnable == "Unable to start workflow"


(***************************************************************************)
(* parseTeamIds (pure)                                                     *)
(***************************************************************************)
IsSeparator(c) == c \in {"\n", ","}          \* the class [\n,] of the split
IsWhitespace(c) == c \in {" ", "\t", "\n"}   \* what String.trim removes

\* String.split(/[\n,]+/): a run of separators is one cut; a leading or a
\* trailing run leaves an empty first or last piece; "" gives [""].
RECURSIVE splitRec(_, _, _)
splitRec(s, cur, inRun) ==
  IF s = <<>> THEN <<cur>>
  ELSE IF IsSeparator(Head(s))
       THEN IF inRun THEN splitRec(Tail(s), cur, TRUE)
            ELSE <<cur>> \o splitRec(Tail(s), <<>>, TRUE)
       ELSE splitRec(Tail(s), Append(cur, Head(s)), FALSE)

split(s) == splitRec(s, <<>>, FALSE)

RECURSIVE trimStart(_)
trimStart(s) ==
  IF s # <<>> /\ IsWhitespace(Head(s)) THEN trimStart(Tail(s)) ELSE s

RECURSIVE trimEnd(_)
trimEnd(s) ==
  IF s # <<>> /\ IsWhitespace(s[Len(s)])
  THEN trimEnd(SubSeq(s, 1, Len(s) - 1)) ELSE s

trim(s) == trimEnd(trimStart(s))

\* .map((part) => part.trim())
RECURSIVE mapTrim(_)
mapTrim(parts) ==
  IF parts = <<>> THEN <<>> ELSE <<trim(Head(parts))>> \o mapTrim(Tail(parts))

\* (variant: the pieces are kept, empty ones too)
filterBoolean_KeepsAll(parts) == parts

\* .filter(Boolean): the empty string is the only falsy string
RECURSIVE filterBoolean(_)
filterBoolean(parts) ==
  IF parts = <<>> THEN <<>>
  ELSE IF Head(parts) = <<>> THEN filterBoolean(Tail(parts))
       ELSE <<Head(parts)>> \o filterBoolean(Tail(parts))

\* (variant: the pieces are not trimmed)
parseTeamIds_NoTrim(input) == filterBoolean(split(input))

\* (variant: the empty pieces are dropped before the trim)
parseTeamIds_FilterFirst(input) == mapTrim(filterBoolean(split(input)))

parseTeamIds(input) == filterBoolean(mapTrim(split(input)))

\* Array.prototype.join(sep) on an array of strings
RECURSIVE join(_, _)
join(parts, sep) ==
  IF parts = <<>> THEN <<>>
  ELSE IF Len(parts) = 1 THEN parts[1]
       ELSE parts[1] \o <<sep>> \o join(Tail(parts), sep)

(***************************************************************************)
(* downloadUrl (pure)                                                      *)
(***************************************************************************)
\* A path is a sequence of characters; "U+00E9" stands for the letter
\* e-acute and "U+D800" for a high surrogate that no low surrogate follows.
API_BASE == "http://localhost:8080"          \* line 5, when the env is unset

LoneSurrogate(c) == c = "U+D800"

\* (variant: the percent sign is taken for an unreserved character)
encodeChar_KeepsPercent(c) ==
  CASE c = " " -> <<"%", "2", "0">>
    [] c = "/" -> <<"%", "2", "F">>
    [] c = "U+00E9" -> <<"%", "C", "3", "%", "A", "9">>
    [] OTHER -> <<c>>

\* encodeURIComponent of one character: the bytes of its UTF-8 form as %XX,
\* unless it is unreserved (letters, digits, - _ . ! ~ * ' ( ))
encodeChar(c) ==
  CASE c = " " -> <<"%", "2", "0">>
    [] c = "/" -> <<"%", "2", "F">>
    [] c = "%" -> <<"%", "2", "5">>
    [] c = "U+00E9" -> <<"%", "C", "3", "%", "A", "9">>
    [] OTHER -> <<c>>

RECURSIVE encodeAll(_)
encodeAll(s) ==
  IF s = <<>> THEN <<>> ELSE encodeChar(Head(s)) \o encodeAll(Tail(s))

\* encodeURIComponent throws URIError on a lone surrogate
encodeURIComponent(s) ==
  IF \E i \in 1..Len(s) : LoneSurrogate(s[i])
  THEN [thrown |-> TRUE, value |-> <<>>]
  ELSE [thrown |-> FALSE, value |-> encodeAll(s)]

\* `${API_BASE}/download?path=${encodeURIComponent(path)}`: the pieces of
\* the template in order; the exception of the encoder goes through
downloadUrl(p) ==
  LET enc == encodeURIComponent(p)
  IN IF enc.thrown THEN [thrown |-> TRUE, url |-> <<>>]
     ELSE [thrown |-> FALSE,
           url |-> <<API_BASE, "/download?path=">> \o enc.value]

\* no download link rendered
NoLink == [thrown |-> FALSE, url |-> <<>>]

(***************************************************************************)
(* Inputs of the session                                                   *)
(***************************************************************************)
\* texts the user may have in the club-id box
TeamInputs ==
  { <<>>,
    <<"6", ",", " ", "7", "\n">> }

\* texts the user may have in the season box
SeasonInputs == { <<>>, <<" ", "2", "4">> }

\* bodies GET /api/fields may answer with (payload.fields, payload.default)
\* (a property the body lacks is Absent: a sequence cannot be compared
\* with UNDEF)
Present(v) == [present |-> TRUE, value |-> v]
Absent == [present |-> FALSE, value |-> <<>>]
OrEmpty(x) == IF x.present THEN x.value ELSE <<>>      \* x ?? []

CatalogPayloads ==
  { [fields |-> Present(<<"id", "name">>), default |-> Present(<<"id">>)],
    [fields |-> Absent, default |-> Present(<<"name">>)] }

JobIdOf(n) == "job" \o ToString(n)           \* the id the service issues

\* what the create-job request may come back with
Responses(n) ==
  { [kind |-> "ok", job_id |-> JobIdOf(n), detail |-> UNDEF],
    [kind |-> "ok", job_id |-> UNDEF, detail |-> UNDEF],
    [kind |-> "okBadBody", job_id |-> UNDEF, detail |-> UNDEF],
    [kind |-> "notOk", job_id |-> UNDEF, detail |-> "quota exceeded"],
    [kind |-> "notOk", job_id |-> UNDEF, detail |-> UNDEF],
    [kind |-> "notOkBadBody", job_id |-> UNDEF, detail |-> UNDEF],
    [kind |-> "network", job_id |-> UNDEF, detail |-> UNDEF] }

\* the StreamEvent shapes, a field the message lacks being UNDEF
Payload(t, st, m, e, d, ts) ==
  [type |-> t, status |-> st, message |-> m, error |-> e, data |-> d,
   timestamp |-> ts]

StatusPayloads ==
  { Payload("status", v, UNDEF, UNDEF, UNDEF, UNDEF) :
      v \in {StatusRunning, StatusCompleted, StatusFailed, UNDEF} }
LogPayloads ==
  { Payload("log", UNDEF, "m1", UNDEF, UNDEF, UNDEF),
    Payload("log", UNDEF, "m2", UNDEF, UNDEF, "12:00"),
    Payload("log", UNDEF, UNDEF, UNDEF, UNDEF, "12:00") }
ErrorPayloads ==
  { Payload("error", UNDEF, UNDEF, e, UNDEF, UNDEF) :
      e \in {"scrape failed", "", UNDEF} }
ResultPayloads ==
  { Payload("result", StatusCompleted, UNDEF, UNDEF, d, UNDEF) :
      d \in {"workbookA", UNDEF} }
OtherPayloads == { Payload("progress", UNDEF, UNDEF, UNDEF, UNDEF, UNDEF) }

Payloads ==
  StatusPayloads \cup LogPayloads \cup ErrorPayloads \cup ResultPayloads
    \cup OtherPayloads

\* evt.data of a message: empty, text that is no JSON, the JSON null, or
\* a JSON object
Messages ==
  { [kind |-> k, value |-> Payload(UNDEF, UNDEF, UNDEF, UNDEF, UNDEF, UNDEF)] :
      k \in {"empty", "text", "null"} }
    \cup { [kind |-> "object", value |-> p] : p \in Payloads }


(***************************************************************************)
(* State                                                                   *)
(***************************************************************************)
VARIABLES
  mounted,          \* the component is mounted
  teamInput,        \* useState("")             line 38
  seasonId,         \* useState("")             line 39
  fieldOptions,     \* the ids of useState<FieldOption[]>([])  line 40
  defaultFields,    \* line 41
  selectedFields,   \* line 42
  fieldsFetch,      \* "pending" while GET /api/fields is in flight
  jobId,            \* line 43
  jobStatus,        \* line 44
  logs,             \* line 45
  error,            \* line 46
  result,           \* line 47
  isSubmitting,     \* line 49
  eventSourceRef,   \* line 48: 0 is null, k > 0 is sources[k]
  sources,          \* every EventSource constructed, in order of construction
  requests,         \* invocations of onSubmit suspended at `await fetch`
  nSubmits,         \* create-job requests issued so far
  errorBy,          \* history: which handler wrote the value of `error`
  terminal,         \* history: an error or result event was applied since
                    \* the last resetJobState
  path,             \* a file path of the result a download link shows
  href              \* the href rendered for it: downloadUrl(path)

formVars == <<teamInput, seasonId>>
fieldVars == <<fieldOptions, defaultFields, selectedFields>>
jobVars == <<jobId, jobStatus, logs, error, result, isSubmitting>>
refVars == <<eventSourceRef, sources>>
histVars == <<errorBy, terminal>>
linkVars == <<path, href>>
vars ==
  <<mounted, formVars, fieldVars, fieldsFetch, jobVars, refVars, requests,
    nSubmits, histVars, linkVars>>

\* the part of the state the callbacks of the controller write, as a record
Cur ==
  [jobId |-> jobId, jobStatus |-> jobStatus, logs |-> logs, error |-> error,
   result |-> result, isSubmitting |-> isSubmitting,
   ref |-> eventSourceRef, sources |-> sources,
   errorBy |-> errorBy, terminal |-> terminal]

\* A callback's writes take effect: the ref and the EventSource objects
\* always, React state only while the component is mounted.
Commit(st) ==
  /\ eventSourceRef' = st.ref
  /\ sources' = st.sources
  /\ IF mounted
     THEN /\ jobId' = st.jobId
          /\ jobStatus' = st.jobStatus
          /\ logs' = st.logs
          /\ error' = st.error
          /\ result' = st.result
          /\ isSubmitting' = st.isSubmitting
          /\ errorBy' = st.errorBy
          /\ terminal' = st.terminal
     ELSE UNCHANGED <<jobVars, histVars>>
  /\ UNCHANGED linkVars

OpenSources == { k \in 1..Len(sources) : sources[k].open }

(***************************************************************************)
(* The callbacks, as functions of the record                               *)
(***************************************************************************)
\* A closed EventSource dispatches nothing, so its url and its handlers are
\* never read again: every closed source is this one value.
ClosedSource == [open |-> FALSE, id |-> UNDEF, result |-> NULL]

\* source.close() of sources[k]; on a closed source it does nothing
close(srcs, k) == [srcs EXCEPT ![k] = ClosedSource]

\* eventSourceRef.current?.close()
closeCurrent(st) ==
  IF st.ref = 0 THEN st.sources ELSE close(st.sources, st.ref)

setError(st, msg, by) == [st EXCEPT !.error = msg, !.errorBy = by]

\* (variant: the reset forgets setError(null))
resetJobState_KeepsError(st) ==
  [st EXCEPT !.sources = closeCurrent(st),
             !.ref = 0,
             !.jobId = NULL,
             !.jobStatus = StatusStarting,
             !.logs = <<>>,
             !.result = NULL,
             !.terminal = FALSE]

\* (variant: the reset keeps the log of the previous job)
resetJobState_KeepsLogs(st) ==
  [st EXCEPT !.sources = closeCurrent(st),
             !.ref = 0,
             !.jobId = NULL,
             !.jobStatus = StatusStarting,
             !.result = NULL,
             !.error = NULL,
             !.errorBy = "none",
             !.terminal = FALSE]

resetJobState(st) ==
  [st EXCEPT !.sources = closeCurrent(st),
             !.ref = 0,
             !.jobId = NULL,
             !.jobStatus = StatusStarting,
             !.logs = <<>>,
             !.result = NULL,
             !.error = NULL,
             !.errorBy = "none",
             !.terminal = FALSE]

\* (variant: the new line is put in front of the previous ones)
appendLog_Prepends(st, line) == [st EXCEPT !.logs = <<line>> \o @]

appendLog(st, line) == [st EXCEPT !.logs = Append(@, line)]

\* new Date(ts).toLocaleTimeString()
toLocaleTimeString(ts) == "local " \o ts

\* `[${timestamp}] ${event.message}`: the two holes of the template
logLine(event) ==
  << IF Falsy(event.timestamp) THEN "now"
     ELSE toLocaleTimeString(event.timestamp),
     event.message >>

\* (variant: the error branch leaves the channel open and referenced)
handleStreamEvent_ErrorKeepsOpen(st, event) ==
  CASE event.type = "status" ->
         [st EXCEPT !.jobStatus =
            IF event.status \in {NULL, UNDEF} THEN StatusRunning
            ELSE event.status]
    [] event.type = "log" -> appendLog(st, logLine(event))
    [] event.type = "error" ->
         [setError(st, IF Falsy(event.error) THEN ErrWorkflow ELSE event.error,
                   "stream")
            EXCEPT !.jobStatus = StatusFailed,
                   !.isSubmitting = FALSE,
                   !.terminal = TRUE]
    [] event.type = "result" ->
         [st EXCEPT !.jobStatus = StatusCompleted,
                    !.result = event.data,
                    !.sources = closeCurrent(st),
                    !.ref = 0,
                    !.isSubmitting = FALSE,
                    !.terminal = TRUE]
    [] OTHER -> st

\* (variant: a status event that carries a terminal status ends the stream)
handleStreamEvent_StatusCloses(st, event) ==
  CASE event.type = "status" ->
         IF event.status \in {StatusCompleted, StatusFailed}
         THEN [st EXCEPT !.jobStatus = event.status,
                         !.sources = closeCurrent(st),
                         !.ref = 0,
                         !.isSubmitting = FALSE]
         ELSE [st EXCEPT !.jobStatus =
                 IF event.status \in {NULL, UNDEF} THEN StatusRunning
                 ELSE event.status]
    [] event.type = "log" -> appendLog(st, logLine(event))
    [] event.type = "error" ->
         [setError(st, IF Falsy(event.error) THEN ErrWorkflow ELSE event.error,
                   "stream")
            EXCEPT !.jobStatus = StatusFailed,
                   !.sources = closeCurrent(st),
                   !.ref = 0,
                   !.isSubmitting = FALSE,
                   !.terminal = TRUE]
    [] event.type = "result" ->
         [st EXCEPT !.jobStatus = StatusCompleted,
                    !.result = event.data,
                    !.sources = closeCurrent(st),
                    !.ref = 0,
                    !.isSubmitting = FALSE,
                    !.terminal = TRUE]
    [] OTHER -> st

\* (variant: the result branch leaves the channel open and referenced)
handleStreamEvent_ResultKeepsOpen(st, event) ==
  CASE event.type = "status" ->
         [st EXCEPT !.jobStatus =
            IF event.status \in {NULL, UNDEF} THEN StatusRunning
            ELSE event.status]
    [] event.type = "log" -> appendLog(st, logLine(event))
    [] event.type = "error" ->
         [setError(st, IF Falsy(event.error) THEN ErrWorkflow ELSE event.error,
                   "stream")
            EXCEPT !.jobStatus = StatusFailed,
                   !.sources = closeCurrent(st),
                   !.ref = 0,
                   !.isSubmitting = FALSE,
                   !.terminal = TRUE]
    [] event.type = "result" ->
         [st EXCEPT !.jobStatus = StatusCompleted,
                    !.result = event.data,
                    !.isSubmitting = FALSE,
                    !.terminal = TRUE]
    [] OTHER -> st

\* (variant: the error branch shows event.error without the fallback)
handleStreamEvent_NoFallback(st, event) ==
  CASE event.type = "status" ->
         [st EXCEPT !.jobStatus =
            IF event.status \in {NULL, UNDEF} THEN StatusRunning
            ELSE event.status]
    [] event.type = "log" -> appendLog(st, logLine(event))
    [] event.type = "error" ->
         [setError(st, event.error, "stream")
            EXCEPT !.jobStatus = StatusFailed,
                   !.sources = closeCurrent(st),
                   !.ref = 0,
                   !.isSubmitting = FALSE,
                   !.terminal = TRUE]
    [] event.type = "result" ->
         [st EXCEPT !.jobStatus = StatusCompleted,
                    !.result = event.data,
                    !.sources = closeCurrent(st),
                    !.ref = 0,
                    !.isSubmitting = FALSE,
                    !.terminal = TRUE]
    [] OTHER -> st

handleStreamEvent(st, event) ==
  CASE event.type = "status" ->
         [st EXCEPT !.jobStatus =
            IF event.status \in {NULL, UNDEF} THEN StatusRunning
            ELSE event.status]
    [] event.type = "log" -> appendLog(st, logLine(event))
    [] event.type = "error" ->
         [setError(st, IF Falsy(event.error) THEN ErrWorkflow ELSE event.error,
                   "stream")
            EXCEPT !.jobStatus = StatusFailed,
                   !.sources = closeCurrent(st),
                   !.ref = 0,
                   !.isSubmitting = FALSE,
                   !.terminal = TRUE]
    [] event.type = "result" ->
         [st EXCEPT !.jobStatus = StatusCompleted,
                    !.result = event.data,
                    !.sources = closeCurrent(st),
                    !.ref = 0,
                    !.isSubmitting = FALSE,
                    !.terminal = TRUE]
    [] OTHER -> st

\* startStream(id) of a render whose `result` was capturedResult
startStream(st, id, capturedResult) ==
  LET new == Append(closeCurrent(st),
                    [open |-> TRUE, id |-> id, result |-> capturedResult])
  IN [st EXCEPT !.sources = new, !.ref = Len(new)]

\* (variant: a payload that does not parse is treated as a failed stream)
onmessage_ParseErrorFatal(st, k, data) ==
  IF data.kind = "empty" THEN st
  ELSE IF data.kind \in {"text", "null"}
       THEN [setError(st, ErrWorkflow, "stream")
               EXCEPT !.jobStatus = StatusFailed,
                      !.sources = closeCurrent(st),
                      !.ref = 0,
                      !.isSubmitting = FALSE]
  ELSE handleStreamEvent(st, data.value)

\* source.onmessage of sources[k]
onmessage(st, k, data) ==
  IF data.kind = "empty" THEN st                  \* if (!evt.data) return
  ELSE IF data.kind = "text" THEN st              \* JSON.parse throws
  ELSE IF data.kind = "null" THEN st              \* null.type throws
  ELSE handleStreamEvent(st, data.value)

\* (variant: onerror forgets setIsSubmitting(false))
onerror_StaysSubmitting(st, k) ==
  LET closed == [st EXCEPT !.sources = close(st.sources, k),
                           !.ref = 0]
  IN IF Falsy(st.sources[k].result) THEN setError(closed, ErrLost, "transport")
     ELSE closed

\* (variant: onerror drops the handle without source.close())
onerror_KeepsOpen(st, k) ==
  LET dropped == [st EXCEPT !.ref = 0, !.isSubmitting = FALSE]
  IN IF Falsy(st.sources[k].result) THEN setError(dropped, ErrLost, "transport")
     ELSE dropped

\* (variant: onerror also marks the job failed)
onerror_MarksFailed(st, k) ==
  LET closed == [st EXCEPT !.sources = close(st.sources, k),
                           !.ref = 0,
                           !.isSubmitting = FALSE,
                           !.jobStatus = StatusFailed]
  IN IF Falsy(st.sources[k].result) THEN setError(closed, ErrLost, "transport")
     ELSE closed

\* source.onerror of sources[k]
onerror(st, k) ==
  LET closed == [st EXCEPT !.sources = close(st.sources, k),
                           !.ref = 0,
                           !.isSubmitting = FALSE]
  IN IF Falsy(st.sources[k].result) THEN setError(closed, ErrLost, "transport")
     ELSE closed


\* (variant: the season text is sent as typed)
requestBody_RawSeason(clubIds) ==
  [team_ids |-> clubIds,
   season_id |-> IF seasonId = <<>> THEN Absent ELSE Present(seasonId),
   fields |-> selectedFields]

\* the body of POST /api/run, lines 168-172
requestBody(clubIds) ==
  [team_ids |-> clubIds,
   season_id |-> IF trim(seasonId) = <<>> THEN Absent
                 ELSE Present(trim(seasonId)),        \* seasonId.trim() || null
   fields |-> selectedFields]

\* (variant: onSubmit forgets setIsSubmitting(true))
onSubmitStart_NotSubmitting(st) == resetJobState(st)

\* onSubmit up to `await fetch` when the parsed list is not empty
onSubmitStart(st) == [resetJobState(st) EXCEPT !.isSubmitting = TRUE]

\* (variant: the detail of a declined request is not read)
thrownMessage_IgnoresDetail(resp) ==
  CASE resp.kind = "notOk" -> ErrWorkflow
    [] resp.kind = "notOkBadBody" -> ErrWorkflow
    [] resp.kind = "okBadBody" -> "Unexpected end of JSON input"
    [] resp.kind = "network" -> "Failed to fetch"
    [] OTHER -> ErrUnable

\* err.message of what the try block throws for a response
thrownMessage(resp) ==
  CASE resp.kind = "notOk" ->
         IF Falsy(resp.detail) THEN ErrWorkflow ELSE resp.detail
    [] resp.kind = "notOkBadBody" -> ErrWorkflow   \* .catch(() => ({detail}))
    [] resp.kind = "okBadBody" -> "Unexpected end of JSON input"
    [] resp.kind = "network" -> "Failed to fetch"
    [] OTHER -> ErrUnable

\* (variant: the catch block forgets setIsSubmitting(false))
onSubmitResume_StaysSubmitting(st, req, resp) ==
  IF resp.kind = "ok"
  THEN startStream([st EXCEPT !.jobId = resp.job_id,
                              !.jobStatus = StatusRunning],
                   resp.job_id, req.result)
  ELSE [setError(st, thrownMessage(resp), "submit")
          EXCEPT !.jobStatus = StatusFailed]

\* onSubmit from the resolution of `await fetch` on; req is the suspended
\* invocation, whose startStream belongs to the render of the submission
onSubmitResume(st, req, resp) ==
  IF resp.kind = "ok"
  THEN startStream([st EXCEPT !.jobId = resp.job_id,
                              !.jobStatus = StatusRunning],
                   resp.job_id, req.result)
  ELSE [setError(st, thrownMessage(resp), "submit")
          EXCEPT !.jobStatus = StatusFailed, !.isSubmitting = FALSE]

\* (variant: the mount effect returns no cleanup)
cleanup_Nothing(st) == st

\* the cleanup of the mount effect, lines 72-74
cleanup(st) == [st EXCEPT !.sources = closeCurrent(st)]

\* (variant: an id that is present is left in place)
toggleField_OnlyAdds(prev, fieldId) ==
  IF \E i \in 1..Len(prev) : prev[i] = fieldId
  THEN prev
  ELSE Append(prev, fieldId)

toggleField(prev, fieldId) ==
  IF \E i \in 1..Len(prev) : prev[i] = fieldId
  THEN SelectSeq(prev, LAMBDA id : id # fieldId)
  ELSE Append(prev, fieldId)

(***************************************************************************)
(* Initial state: the component has mounted and fetchFields is in flight   *)
(***************************************************************************)
Init ==
  /\ mounted = TRUE
  /\ teamInput = <<>>
  /\ seasonId = <<>>
  /\ fieldOptions = <<>>
  /\ defaultFields = <<>>
  /\ selectedFields = <<>>
  /\ fieldsFetch = "pending"
  /\ jobId = NULL
  /\ jobStatus = StatusIdle
  /\ logs = <<>>
  /\ error = NULL
  /\ result = NULL
  /\ isSubmitting = FALSE
  /\ eventSourceRef = 0
  /\ sources = <<>>
  /\ requests = {}
  /\ nSubmits = 0
  /\ errorBy = "none"
  /\ terminal = FALSE
  /\ path = <<>>
  /\ href = NoLink

(***************************************************************************)
(* Actions                                                                 *)
(***************************************************************************)
\* onChange of the club-id textarea
SetTeamInput ==
  /\ mounted
  /\ \E s \in TeamInputs : teamInput' = s
  /\ UNCHANGED <<mounted, seasonId, fieldVars, fieldsFetch, jobVars, refVars,
                 requests, nSubmits, histVars, linkVars>>

\* onChange of the season input
SetSeasonId ==
  /\ mounted
  /\ \E s \in SeasonInputs : seasonId' = s
  /\ UNCHANGED <<mounted, teamInput, fieldVars, fieldsFetch, jobVars, refVars,
                 requests, nSubmits, histVars, linkVars>>

\* GET /api/fields answered with a body: lines 58-63
FetchFieldsLoaded ==
  /\ fieldsFetch = "pending"
  /\ fieldsFetch' = "done"
  /\ \E payload \in CatalogPayloads :
       IF mounted
       THEN /\ fieldOptions' = OrEmpty(payload.fields)
            /\ defaultFields' = OrEmpty(payload.default)
            /\ selectedFields' = OrEmpty(payload.default)
       ELSE UNCHANGED fieldVars
  /\ UNCHANGED <<mounted, formVars, jobVars, refVars, requests, nSubmits,
                 histVars, linkVars>>

\* (variant: a failed load is tried again)
FetchFieldsFailed_Retries ==
  /\ fieldsFetch = "pending"
  /\ fieldsFetch' = "pending"
  /\ Commit(setError(Cur, ErrFields, "catalog"))
  /\ UNCHANGED <<mounted, formVars, fieldVars, requests, nSubmits>>

\* GET /api/fields failed (rejected, not ok, or a body that is no JSON):
\* lines 55-57 and 64-67
FetchFieldsFailed ==
  /\ fieldsFetch = "pending"
  /\ fieldsFetch' = "done"
  /\ Commit(setError(Cur, ErrFields, "catalog"))
  /\ UNCHANGED <<mounted, formVars, fieldVars, requests, nSubmits>>

\* (variant: the checkboxes come from a fixed column list, not the catalog)
ToggleField_AnyId ==
  /\ mounted
  /\ \E id \in {"id", "name"} :
       selectedFields' = toggleField(selectedFields, id)
  /\ UNCHANGED <<mounted, formVars, fieldOptions, defaultFields, fieldsFetch,
                 jobVars, refVars, requests, nSubmits, histVars, linkVars>>

\* a checkbox of the column list is clicked: onChange={() =>
\* toggleField(field.id)} for a field of fieldOptions

ToggleField ==
  /\ mounted
  /\ \E i \in 1..Len(fieldOptions) :
       selectedFields' = toggleField(selectedFields, fieldOptions[i])
  /\ UNCHANGED <<mounted, formVars, fieldOptions, defaultFields, fieldsFetch,
                 jobVars, refVars, requests, nSubmits, histVars, linkVars>>

\* (variant: the catalog ids are added to the selection already there)
SelectAll_Appends ==
  /\ mounted
  /\ selectedFields' = selectedFields \o fieldOptions
  /\ UNCHANGED <<mounted, formVars, fieldOptions, defaultFields, fieldsFetch,
                 jobVars, refVars, requests, nSubmits, histVars, linkVars>>

SelectAll ==
  /\ mounted
  /\ selectedFields' = fieldOptions
  /\ UNCHANGED <<mounted, formVars, fieldOptions, defaultFields, fieldsFetch,
                 jobVars, refVars, requests, nSubmits, histVars, linkVars>>

SelectDefault ==
  /\ mounted
  /\ selectedFields' = defaultFields
  /\ UNCHANGED <<mounted, formVars, fieldOptions, defaultFields, fieldsFetch,
                 jobVars, refVars, requests, nSubmits, histVars, linkVars>>

ClearFields ==
  /\ mounted
  /\ selectedFields' = <<>>
  /\ UNCHANGED <<mounted, formVars, fieldOptions, defaultFields, fieldsFetch,
                 jobVars, refVars, requests, nSubmits, histVars, linkVars>>

\* (variant: the submit button is not disabled during a submission)
OnSubmit_ButtonEnabled ==
  /\ mounted
  /\ LET clubIds == parseTeamIds(teamInput) IN
       IF Len(clubIds) = 0
       THEN /\ Commit(setError(Cur, ErrNoIds, "validation"))
            /\ UNCHANGED <<requests, nSubmits>>
       ELSE /\ nSubmits < MaxSubmits
            /\ Commit(onSubmitStart(Cur))
            /\ requests' = requests \cup
                 {[n |-> nSubmits + 1, body |-> requestBody(clubIds),
                   result |-> result]}
            /\ nSubmits' = nSubmits + 1
  /\ UNCHANGED <<mounted, formVars, fieldVars, fieldsFetch>>

\* (variant: the job state is reset before the id list is checked)
OnSubmit_ResetsFirst ==
  /\ mounted
  /\ ~isSubmitting
  /\ LET clubIds == parseTeamIds(teamInput) IN
       IF Len(clubIds) = 0
       THEN /\ Commit(setError(resetJobState(Cur), ErrNoIds, "validation"))
            /\ UNCHANGED <<requests, nSubmits>>
       ELSE /\ nSubmits < MaxSubmits
            /\ Commit(onSubmitStart(Cur))
            /\ requests' = requests \cup
                 {[n |-> nSubmits + 1, body |-> requestBody(clubIds),
                   result |-> result]}
            /\ nSubmits' = nSubmits + 1
  /\ UNCHANGED <<mounted, formVars, fieldVars, fieldsFetch>>

\* The form is submitted.  The submit button is disabled while isSubmitting
\* (line 372), and a form whose default button is disabled is not submitted.
OnSubmit ==
  /\ mounted
  /\ ~isSubmitting
  /\ LET clubIds == parseTeamIds(teamInput) IN
       IF Len(clubIds) = 0
       THEN /\ Commit(setError(Cur, ErrNoIds, "validation"))
            /\ UNCHANGED <<requests, nSubmits>>
       ELSE /\ nSubmits < MaxSubmits
            /\ Commit(onSubmitStart(Cur))
            /\ requests' = requests \cup
                 {[n |-> nSubmits + 1, body |-> requestBody(clubIds),
                   result |-> result]}
            /\ nSubmits' = nSubmits + 1
  /\ UNCHANGED <<mounted, formVars, fieldVars, fieldsFetch>>

\* `await fetch` of the suspended onSubmit req settles with resp
OnSubmitSettledWith(req, resp) ==
  /\ req \in requests
  /\ Commit(onSubmitResume(Cur, req, resp))
  /\ requests' = requests \ {req}
  /\ UNCHANGED <<mounted, formVars, fieldVars, fieldsFetch, nSubmits>>

OnSubmitSettled ==
  \E req \in requests : \E resp \in Responses(req.n) :
    OnSubmitSettledWith(req, resp)

\* the open EventSource sources[k] dispatches the message event `data`
StreamMessageOf(k, data) ==
  /\ k \in OpenSources
  /\ data.value.type = "log" => Len(logs) < MaxLogs
  /\ Commit(onmessage(Cur, k, data))
  /\ UNCHANGED <<mounted, formVars, fieldVars, fieldsFetch, requests,
                 nSubmits>>

StreamMessage ==
  \E k \in 1..Len(sources) : \E data \in Messages : StreamMessageOf(k, data)

\* the open EventSource sources[k] dispatches an error event
TransportErrorOf(k) ==
  /\ k \in OpenSources
  /\ Commit(onerror(Cur, k))
  /\ UNCHANGED <<mounted, formVars, fieldVars, fieldsFetch, requests,
                 nSubmits>>

TransportError == \E k \in 1..Len(sources) : TransportErrorOf(k)

\* the component unmounts: the cleanup of the mount effect runs
Unmount ==
  /\ mounted
  /\ mounted' = FALSE
  /\ sources' = cleanup(Cur).sources
  /\ UNCHANGED <<formVars, fieldVars, fieldsFetch, jobVars, eventSourceRef,
                 requests, nSubmits, histVars, linkVars>>

Next ==
  \/ SetTeamInput
  \/ SetSeasonId
  \/ FetchFieldsLoaded
  \/ FetchFieldsFailed
  \/ ToggleField
  \/ SelectAll
  \/ SelectDefault
  \/ ClearFields
  \/ OnSubmit
  \/ OnSubmitSettled
  \/ StreamMessage
  \/ TransportError
  \/ Unmount

Spec == Init /\ [][Next]_vars


(***************************************************************************)
(* The submission gateway over every club-id text of up to MaxInputLen     *)
(* characters: the user types any text and submits; the service answers    *)
(* and a channel that is open can only fail.                               *)
(***************************************************************************)
Chars == {" ", "\n", ",", "6", "7"}

\* onChange of the club-id textarea, keystroke by keystroke: a character
\* is typed at the end or the last one is deleted
TypeTeamInput ==
  /\ mounted
  /\ \/ /\ Len(teamInput) < MaxInputLen
        /\ \E c \in Chars : teamInput' = Append(teamInput, c)
     \/ /\ teamInput # <<>>
        /\ teamInput' = SubSeq(teamInput, 1, Len(teamInput) - 1)
  /\ UNCHANGED <<mounted, seasonId, fieldVars, fieldsFetch, jobVars, refVars,
                 requests, nSubmits, histVars, linkVars>>

InputNext ==
  \/ TypeTeamInput
  \/ OnSubmit
  \/ OnSubmitSettled
  \/ TransportError
  \/ Unmount

InputSpec == Init /\ [][InputNext]_vars

(***************************************************************************)
(* The form: the season box typed keystroke by keystroke, the column       *)
(* selection and the submission                                            *)
(***************************************************************************)
SeasonChars == {" ", "2"}

\* onChange of the season input, keystroke by keystroke
TypeSeasonId ==
  /\ mounted
  /\ \/ /\ Len(seasonId) < MaxInputLen
        /\ \E c \in SeasonChars : seasonId' = Append(seasonId, c)
     \/ /\ seasonId # <<>>
        /\ seasonId' = SubSeq(seasonId, 1, Len(seasonId) - 1)
  /\ UNCHANGED <<mounted, teamInput, fieldVars, fieldsFetch, jobVars, refVars,
                 requests, nSubmits, histVars, linkVars>>

FormNext ==
  \/ SetTeamInput
  \/ TypeSeasonId
  \/ FetchFieldsLoaded
  \/ ToggleField
  \/ SelectAll
  \/ SelectDefault
  \/ ClearFields
  \/ OnSubmit
  \/ OnSubmitSettled

FormSpec == Init /\ [][FormNext]_vars

\* the form together with the failure of the catalog fetch
CatalogNext == FormNext \/ FetchFieldsFailed

CatalogSpec == Init /\ [][CatalogNext]_vars

(***************************************************************************)
(* The download link of the result panel                                   *)
(***************************************************************************)
PathChars == {"2", "0", " ", "/", "%", "U+00E9", "U+D800"}

\* the file paths a result payload may carry, up to MaxPathLen characters
Paths == UNION { [1..n -> PathChars] : n \in 0..MaxPathLen }

\* the result panel is rendered for a result whose file path is p:
\* href={downloadUrl(result.workbook)}, lines 428, 439 and 469
RenderDownloadLink ==
  /\ mounted
  /\ href = NoLink
  /\ \E p \in Paths :
       /\ path' = p
       /\ href' = downloadUrl(p)
  /\ UNCHANGED <<mounted, formVars, fieldVars, fieldsFetch, jobVars, refVars,
                 requests, nSubmits, histVars>>

DownloadSpec == Init /\ [][RenderDownloadLink]_vars

\* The service answers every create-job request, and an open channel ends:
\* it delivers an error or a result event or fails.
TerminalMessages ==
  { m \in Messages : m.kind = "object" /\ m.value.type \in {"error", "result"} }

ChannelEnds ==
  \/ TransportError
  \/ \E k \in 1..Len(sources) : \E data \in TerminalMessages :
       StreamMessageOf(k, data)

\* The handlers of the job alone.  The handlers left out (SetSeasonId,
\* ToggleField, SelectAll, SelectDefault, ClearFields) write seasonId and
\* selectedFields only, which no guard and no write of a job handler depends
\* on but the request body.
JobNext ==
  \/ SetTeamInput
  \/ FetchFieldsLoaded
  \/ FetchFieldsFailed
  \/ OnSubmit
  \/ OnSubmitSettled
  \/ StreamMessage
  \/ TransportError
  \/ Unmount

\* the job lifecycle without fairness
JobSpec == Init /\ [][JobNext]_vars

FairSpec ==
  Init /\ [][JobNext]_vars /\ WF_vars(OnSubmitSettled) /\ WF_vars(ChannelEnds)

(***************************************************************************)
(* Properties                                                              *)
(***************************************************************************)
IsSet(v) == v # NULL

\* C1: in every reachable state at most one EventSource is open.
C1_AtMostOneOpenChannel == Cardinality(OpenSources) <= 1

\* a second job's channel is open after the first job's channel was closed
C1_Witness ==
  /\ Len(sources) = 2
  /\ ~sources[1].open
  /\ sources[2].open
  /\ eventSourceRef = 2

\* C2: once an error or a result event was applied, no message and no
\* transport error of the channel changes status, result or error (until
\* the next resetJobState clears `terminal`).
C2_TerminalExclusivity ==
  [][(terminal /\ (StreamMessage \/ TransportError))
       => UNCHANGED <<jobStatus, result, error>>]_vars

\* a terminal event was applied and its channel is closed
C2_Witness ==
  /\ terminal
  /\ jobStatus \in {StatusCompleted, StatusFailed}
  /\ Len(sources) >= 1
  /\ OpenSources = {}

\* C3: result and error are never both set when error was written by an
\* error event or by a transport error, the only writers of error among
\* the stream callbacks.
C3_ResultErrorExclusive ==
  ~(IsSet(result) /\ IsSet(error) /\ errorBy \in {"stream", "transport"})

\* a job that received log lines ended with an error of the stream
C3_Witness ==
  /\ errorBy \in {"stream", "transport"}
  /\ IsSet(error)
  /\ ~IsSet(result)
  /\ Len(logs) > 0

\* C4: result is set if and only if status is completed.
C4_ResultIffCompleted == IsSet(result) <=> (jobStatus = StatusCompleted)

\* C5: error is set if and only if status is failed.
C5_ErrorIffFailed == IsSet(error) <=> (jobStatus = StatusFailed)

\* C6: once the component is unmounted no channel is open.
C6_NoChannelAfterUnmount == ~mounted => OpenSources = {}

SourceClosed(k) == k <= Len(sources) /\ ~sources[k].open

\* the steps that end a job: a terminal event, a transport error, the
\* unmount, a new valid submission
EndingStep ==
  \/ \E k \in 1..Len(sources) : \E data \in TerminalMessages :
       StreamMessageOf(k, data)
  \/ TransportError
  \/ Unmount
  \/ (OnSubmit /\ nSubmits' # nSubmits)

\* the steps that run a teardown through the handle
TeardownStep == Unmount \/ (OnSubmit /\ nSubmits' # nSubmits)

\* C7: every EventSource that is opened is released exactly once: a closed
\* source stays closed and no source is dropped from the record; each way a
\* job ends (error event, result event, transport error, new submission,
\* unmount) leaves no source open; a teardown that finds no open channel
\* changes no source; and, when channels end, an open source is eventually
\* closed (with a closed source staying closed: none stays open for ever).
C7_ReleasedExactlyOnce ==
  /\ [][\A k \in 1..MaxSubmits : SourceClosed(k) => SourceClosed(k)']_vars
  /\ [][EndingStep => OpenSources' = {}]_vars
  /\ [][(OpenSources = {} /\ TeardownStep) => sources' = sources]_vars
  /\ (OpenSources # {}) ~> (OpenSources = {})

\* each of the two channels of a session was opened and has been closed, the
\* first by a terminal event and the second otherwise
C7_Witness ==
  /\ Len(sources) = 2
  /\ OpenSources = {}
  /\ eventSourceRef = 0
  /\ ~terminal

\* C8: a transport error of the channel before any error or result event
\* leaves status failed, error the connectivity message, no result and the
\* channel closed.
C8_ConnectionDrop ==
  [][(mounted /\ ~terminal /\ TransportError)
       => /\ jobStatus' = StatusFailed
          /\ error' = ErrLost
          /\ ~IsSet(result')
          /\ OpenSources' = {}]_vars

\* C9: a transport error while the current job has no recorded result sets
\* error to the connectivity message, for every job of the session.
C9_LostConnectionReported ==
  [][(mounted /\ ~IsSet(result) /\ TransportError) => error' = ErrLost]_vars

\* C10: a transport error leaves status as it was and writes nothing but
\* error, the channel handle (with the source it closes) and isSubmitting.
C10_TransportErrorFrame ==
  [][TransportError
       => UNCHANGED <<jobStatus, jobId, logs, result, mounted, formVars,
                      fieldVars, fieldsFetch, requests, nSubmits>>]_vars

\* a transport error was reported while the job was running
C10_Witness ==
  /\ errorBy = "transport"
  /\ error = ErrLost
  /\ jobStatus = StatusRunning
  /\ ~isSubmitting
  /\ OpenSources = {}

\* a step in which an EventSource is constructed
ChannelOpened == Len(sources') > Len(sources)

\* C11: no automatic reconnection: a transport error leaves no channel open
\* and no create-job request in flight, and a channel is opened only by the
\* success response of a request, which only a later valid submission
\* issues.
C11_NoReconnect ==
  /\ [][TransportError => (OpenSources' = {} /\ requests' = {})]_vars
  /\ [][(ChannelOpened \/ ~(OpenSources' \subseteq OpenSources))
          => \E req \in requests : \E resp \in Responses(req.n) :
               resp.kind = "ok" /\ OnSubmitSettledWith(req, resp)]_vars
  /\ [][requests' # requests /\ requests' # {}
          => (OnSubmit /\ nSubmits' = nSubmits + 1)]_vars

\* the first job lost its connection; nothing is open or in flight
C11_Witness ==
  /\ mounted
  /\ errorBy = "transport"
  /\ nSubmits = 1
  /\ Len(sources) = 1
  /\ OpenSources = {}
  /\ requests = {}

\* messages whose data is empty or is no JSON
UnparsableMessages == { m \in Messages : m.kind \in {"empty", "text"} }

\* log events that carry their message
ValidLogMessages ==
  { m \in Messages :
      m.kind = "object" /\ m.value.type = "log" /\ m.value.message # UNDEF }

\* C12: a message whose data is empty or does not parse changes nothing of
\* the job state and leaves the channel as it is, and every valid log event
\* appends exactly its line at the end of logs: valid log events before and
\* after such a message give their lines in order.
C12_MalformedIgnored ==
  /\ [][(\E k \in 1..Len(sources) : \E data \in UnparsableMessages :
           StreamMessageOf(k, data))
          => UNCHANGED <<jobVars, refVars, histVars>>]_vars
  /\ [][\A k \in 1..Len(sources) : \A data \in ValidLogMessages :
          (mounted /\ StreamMessageOf(k, data))
            => (logs' = Append(logs, logLine(data.value))
                /\ UNCHANGED <<jobStatus, error, result, refVars>>)]_vars

\* two valid log events were applied in order and the channel is still open;
\* a malformed message received between them is a step from the state with
\* the first line to itself
C12_Witness ==
  /\ mounted
  /\ OpenSources # {}
  /\ logs = << <<"now", "m1">>, <<toLocaleTimeString("12:00"), "m2">> >>
  /\ jobStatus = StatusRunning
  /\ error = NULL

\* StreamEvent (lines 21-25): the tag is known and the fields the type
\* requires are there
WellFormed(p) ==
  CASE p.type = "status" -> p.status # UNDEF
    [] p.type = "log" -> p.message # UNDEF
    [] p.type = "error" -> p.error # UNDEF
    [] p.type = "result" -> p.status # UNDEF /\ p.data # UNDEF
    [] OTHER -> FALSE

\* messages that parse as JSON and are no StreamEvent
IllFormedMessages ==
  { m \in Messages :
      m.kind = "null" \/ (m.kind = "object" /\ ~WellFormed(m.value)) }

\* C13: a message that parses as JSON but is no well-formed StreamEvent
\* changes nothing of the job state and does not close the channel.
C13_IllFormedIgnored ==
  [][(\E k \in 1..Len(sources) : \E data \in IllFormedMessages :
        StreamMessageOf(k, data))
       => UNCHANGED <<jobVars, refVars>>]_vars

\* a submission with a non-empty parsed id list: the step that issues the
\* create-job request
ValidSubmit == OnSubmit /\ nSubmits' = nSubmits + 1

\* C14: the step of a valid submission, which issues the create-job request,
\* leaves no channel open and the handle empty, logs empty, result, error
\* and the job id cleared and status "Starting...".
C14_ResetOnSubmit ==
  [][ValidSubmit
       => /\ OpenSources' = {}
          /\ eventSourceRef' = 0
          /\ logs' = <<>>
          /\ result' = NULL
          /\ error' = NULL
          /\ jobId' = NULL
          /\ jobStatus' = StatusStarting
          /\ Cardinality(requests') = Cardinality(requests) + 1]_vars

\* the second submission has reset the state a completed first job left
C14_Witness ==
  /\ nSubmits = 2
  /\ requests # {}
  /\ Len(sources) = 1
  /\ \E req \in requests : req.result = "workbookA"
  /\ logs = <<>>
  /\ result = NULL
  /\ jobStatus = StatusStarting

\* a text made only of whitespace, commas and newlines
BlankInput(s) == \A i \in 1..Len(s) : s[i] \in {" ", "\t", "\n", ","}

\* C15: submitting a club-id text made only of whitespace, commas and
\* newlines sets the validation error, issues no create-job request and
\* starts no job: status, isSubmitting and the channel stay as they were.
C15_EmptyInputRejected ==
  [][(OnSubmit /\ BlankInput(teamInput))
       => /\ error' = ErrNoIds
          /\ UNCHANGED <<requests, nSubmits, jobStatus, isSubmitting,
                         refVars>>]_vars

\* a text of blanks and separators was submitted and rejected
C15_Witness ==
  /\ teamInput = <<" ", ",", "\n">>
  /\ errorBy = "validation"
  /\ error = ErrNoIds
  /\ jobStatus = StatusIdle
  /\ nSubmits = 0
  /\ requests = {}

\* the create-job responses that are no success: a non-2xx status (with a
\* detail, without one, or with a body that is no JSON) and a failed fetch
FailingResponses(n) ==
  { resp \in Responses(n) : resp.kind \in {"notOk", "notOkBadBody", "network"} }

\* C16: while a create-job request is in flight the status is "Starting..."
\* and no channel is open; when the request gets a non-success response or
\* the fetch fails, that step takes the status to "failed", sets error to
\* the detail string of the response (the generic text when the detail is
\* absent or the body unparseable, the fetch error's text when the transport
\* failed), opens no channel and ends the submitting state.
C16_SubmissionRejected ==
  /\ []((mounted /\ requests # {})
          => (jobStatus = StatusStarting /\ OpenSources = {}))
  /\ [][\A req \in requests : \A resp \in FailingResponses(req.n) :
          (mounted /\ OnSubmitSettledWith(req, resp))
            => /\ jobStatus = StatusStarting
               /\ jobStatus' = StatusFailed
               /\ error' = (IF resp.kind = "network" THEN "Failed to fetch"
                            ELSE IF resp.detail \in {UNDEF, NULL, ""}
                                 THEN "Workflow failed"
                                 ELSE resp.detail)
               /\ sources' = sources
               /\ eventSourceRef' = eventSourceRef
               /\ isSubmitting' = FALSE]_vars

C16_Witness ==
  /\ mounted
  /\ errorBy = "submit"
  /\ error = "quota exceeded"
  /\ jobStatus = StatusFailed
  /\ sources = <<>>
  /\ requests = {}
  /\ ~isSubmitting

\* the create-job responses with a success status that are not well-formed:
\* a body that is no JSON, and a JSON body without job_id
IllFormedOk(n) ==
  { resp \in Responses(n) :
      resp.kind = "okBadBody" \/ (resp.kind = "ok" /\ resp.job_id = UNDEF) }

\* C17: when the create-job request gets a success-status response that is
\* not well-formed, that step takes the status to "failed", sets an error
\* message and opens no channel.
C17_IllFormedSuccessRejected ==
  [][\A req \in requests : \A resp \in IllFormedOk(req.n) :
       (mounted /\ OnSubmitSettledWith(req, resp))
         => /\ jobStatus' = StatusFailed
            /\ IsSet(error')
            /\ sources' = sources]_vars

\* C18: only the newest submission can reach the job state: at most one
\* create-job request is in flight and it is the newest submission's, with
\* no channel open beside it; an open channel (the only kind that delivers
\* messages and transport errors) is the last one constructed, the one the
\* handle refers to, and streams the job of the newest submission; every
\* channel of an earlier job is closed.
C18_NoCrossJobLeakage ==
  /\ Cardinality(requests) <= 1
  /\ \A req \in requests : req.n = nSubmits /\ OpenSources = {}
  /\ \A k \in OpenSources :
       /\ k = eventSourceRef
       /\ k = Len(sources)
       /\ sources[k].id \in {JobIdOf(nSubmits), UNDEF}
       /\ mounted => sources[k].id = jobId

C18_Witness ==
  /\ mounted
  /\ nSubmits = 2
  /\ Len(sources) = 2
  /\ ~sources[1].open
  /\ sources[2].open
  /\ jobId = JobIdOf(2)
  /\ logs = << <<"now", "m1">> >>
  /\ jobStatus = StatusRunning
  /\ error = NULL
  /\ result = NULL

\* the well-formed result events
ResultMessages ==
  { m \in Messages :
      m.kind = "object" /\ m.value.type = "result" /\ m.value.data # UNDEF }

\* C19: a result event applied to the job state sets status "completed" and
\* result to the carried data, leaves error as it was, closes the channel,
\* clears the handle and ends the submitting state; in particular from the
\* running state without an error it ends with status completed, error
\* absent, result populated and no channel open.
C19_ResultEvent ==
  [][\A k \in 1..Len(sources) : \A data \in ResultMessages :
       (mounted /\ StreamMessageOf(k, data))
         => /\ jobStatus' = StatusCompleted
            /\ result' = data.value.data
            /\ IsSet(result')
            /\ error' = error
            /\ OpenSources' = {}
            /\ eventSourceRef' = 0
            /\ isSubmitting' = FALSE
            /\ logs' = logs]_vars

C19_Witness ==
  /\ mounted
  /\ terminal
  /\ jobStatus = StatusCompleted
  /\ result = "workbookA"
  /\ error = NULL
  /\ Len(logs) = 2
  /\ sources = <<ClosedSource>>
  /\ eventSourceRef = 0
  /\ ~isSubmitting

\* the error events
ErrorMessages ==
  { m \in Messages : m.kind = "object" /\ m.value.type = "error" }

\* C20: an error event applied to the job state sets status "failed" and
\* error to the carried message, or to "Workflow failed" when the carried
\* message is empty or missing, leaves result absent, closes the channel,
\* clears the handle and ends the submitting state.
C20_ErrorEvent ==
  [][\A k \in 1..Len(sources) : \A data \in ErrorMessages :
       (mounted /\ StreamMessageOf(k, data))
         => /\ jobStatus' = StatusFailed
            /\ error' = (IF data.value.error \in {UNDEF, NULL, ""}
                         THEN "Workflow failed"
                         ELSE data.value.error)
            /\ result' = NULL
            /\ OpenSources' = {}
            /\ eventSourceRef' = 0
            /\ isSubmitting' = FALSE]_vars

C20_Witness ==
  /\ mounted
  /\ errorBy = "stream"
  /\ error = "Workflow failed"
  /\ jobStatus = StatusFailed
  /\ result = NULL
  /\ sources = <<ClosedSource>>
  /\ eventSourceRef = 0
  /\ ~isSubmitting

\* the log events (with or without a message)
LogMessages ==
  { m \in Messages : m.kind = "object" /\ m.value.type = "log" }

\* C21: logs changes only in two ways: the reset of a valid submission
\* empties it, and a log event delivered by the open channel appends
\* exactly one line, made of that event's time and message, after the lines
\* already there, which keep their content and order; every log event
\* delivered to the mounted component is applied that way.  So the lines of
\* a job are its log events in the order received.
C21_LogOrdering ==
  /\ [][logs' # logs =>
          \/ ValidSubmit /\ logs' = <<>>
          \/ /\ Len(logs') = Len(logs) + 1
             /\ SubSeq(logs', 1, Len(logs)) = logs
             /\ \E k \in OpenSources : \E data \in LogMessages :
                  /\ StreamMessageOf(k, data)
                  /\ logs'[Len(logs')][2] = data.value.message
                  /\ logs'[Len(logs')][1] =
                       (IF data.value.timestamp = UNDEF THEN "now"
                        ELSE "local " \o data.value.timestamp)]_vars
  /\ [][\A k \in OpenSources : \A data \in LogMessages :
          (mounted /\ StreamMessageOf(k, data)) => Len(logs') = Len(logs) + 1]_vars

C21_Witness ==
  /\ mounted
  /\ OpenSources # {}
  /\ jobStatus = StatusRunning
  /\ logs = << <<"local 12:00", "m2">>, <<"now", "m1">> >>

\* the stage of a status in the lifecycle idle, starting, running, terminal
Stage(s) ==
  CASE s = StatusIdle -> 0
    [] s = StatusStarting -> 1
    [] s = StatusRunning -> 2
    [] OTHER -> 3

\* C22: a step that changes the status either is a new valid submission,
\* which sets it to "Starting...", or moves it to a later stage; a terminal
\* status (completed, failed) is therefore left only by a new submission.
C22_StatusMonotonic ==
  [][jobStatus' # jobStatus =>
       \/ ValidSubmit /\ jobStatus' = StatusStarting
       \/ Stage(jobStatus') > Stage(jobStatus)]_vars

\* C23: parsing is idempotent: for the text in the club-id box, and for the
\* id list a submission has put in its request, joining the parsed ids with
\* "," and parsing again gives the same sequence.
C23_ParseIdempotent ==
  /\ parseTeamIds(join(parseTeamIds(teamInput), ",")) = parseTeamIds(teamInput)
  /\ \A req \in requests :
       parseTeamIds(join(req.body.team_ids, ",")) = req.body.team_ids

C23_Witness ==
  /\ teamInput = <<" ", ",", "6">>
  /\ \E req \in requests : req.body.team_ids = << <<"6">> >>

\* the tokens of a text by position: the maximal runs of characters that
\* are neither comma nor newline, each cut down to what lies between its
\* first and its last non-blank character
RunStarts(s) ==
  { i \in 1..Len(s) :
      s[i] \notin {",", "\n"} /\ (i = 1 \/ s[i - 1] \in {",", "\n"}) }
RunEnd(s, i) ==
  CHOOSE j \in i..Len(s) :
    /\ \A m \in i..j : s[m] \notin {",", "\n"}
    /\ j = Len(s) \/ s[j + 1] \in {",", "\n"}
Inked(s, i) == { m \in i..RunEnd(s, i) : s[m] \notin {" ", "\t"} }
TokenAt(s, i) ==
  LET ink == Inked(s, i)
      a == CHOOSE m \in ink : \A n \in ink : m <= n
      b == CHOOSE m \in ink : \A n \in ink : m >= n
  IN SubSeq(s, a, b)
TokenStarts(s) == { i \in RunStarts(s) : Inked(s, i) # {} }

\* C24: every id parseTeamIds returns is non-empty, neither starts nor ends
\* with whitespace and contains no comma and no newline; and the ids are,
\* in input order and with duplicates kept, the trimmed non-blank runs
\* between the separators of the text.
C24_ParseTokens ==
  LET ids == parseTeamIds(teamInput)
      starts == TokenStarts(teamInput)
  IN /\ \A n \in 1..Len(ids) :
          /\ ids[n] # <<>>
          /\ ids[n][1] \notin {" ", "\t", "\n"}
          /\ ids[n][Len(ids[n])] \notin {" ", "\t", "\n"}
          /\ \A j \in 1..Len(ids[n]) : ids[n][j] \notin {",", "\n"}
     /\ Len(ids) = Cardinality(starts)
     /\ \A i \in starts :
          ids[Cardinality({ m \in starts : m < i }) + 1] = TokenAt(teamInput, i)
     /\ \A req \in requests : req.body.team_ids # <<>>

C24_Witness ==
  /\ teamInput = <<"6", ",", "6">>
  /\ \E req \in requests : req.body.team_ids = << <<"6">>, <<"6">> >>

\* a text without the blanks, tabs and newlines at its two ends, by position
StripBlanks(s) ==
  LET ink == { m \in 1..Len(s) : s[m] \notin {" ", "\t", "\n"} }
  IN IF ink = {} THEN <<>>
     ELSE SubSeq(s, CHOOSE m \in ink : \A n \in ink : m <= n,
                    CHOOSE m \in ink : \A n \in ink : m >= n)

\* C25: the step of a valid submission adds exactly one create-job request;
\* its body has team_ids equal to the non-empty parsed id list of the text
\* in the box, season_id equal to the season text without its surrounding
\* whitespace, or null when nothing is left of it, and fields equal to the
\* selection at that moment.
C25_RequestBody ==
  [][ValidSubmit =>
       \E req \in requests' :
         /\ req \notin requests
         /\ requests' = requests \cup {req}
         /\ req.n = nSubmits + 1
         /\ req.body.team_ids = parseTeamIds(teamInput)
         /\ req.body.team_ids # <<>>
         /\ req.body.season_id =
              (IF StripBlanks(seasonId) = <<>> THEN Absent
               ELSE Present(StripBlanks(seasonId)))
         /\ req.body.fields = selectedFields]_vars

C25_Witness ==
  /\ seasonId = <<" ", "2", " ">>
  /\ selectedFields = <<"name", "id">>
  /\ \E req \in requests :
       /\ req.body.season_id = Present(<<"2">>)
       /\ req.body.fields = <<"name", "id">>
       /\ req.body.team_ids = << <<"6">>, <<"7">> >>

\* C26: whenever a channel is live, the recorded job id is set (neither
\* null nor undefined) and is the id that channel was opened for.
C26_ChannelScopedToJob ==
  \A k \in OpenSources :
    /\ jobId \notin {NULL, UNDEF}
    /\ sources[k].id = jobId

\* decodeURIComponent: every %XX group (or pair of groups) is replaced by
\* the character whose UTF-8 form it is; a "%" that starts no such group
\* makes it throw
RECURSIVE decodeRec(_)
decodeRec(s) ==
  IF s = <<>> THEN <<>>
  ELSE IF Head(s) # "%" THEN <<Head(s)>> \o decodeRec(Tail(s))
  ELSE IF Len(s) >= 6 /\ SubSeq(s, 1, 6) = <<"%", "C", "3", "%", "A", "9">>
       THEN <<"U+00E9">> \o decodeRec(SubSeq(s, 7, Len(s)))
  ELSE IF Len(s) >= 3 /\ SubSeq(s, 1, 3) = <<"%", "2", "0">>
       THEN <<" ">> \o decodeRec(SubSeq(s, 4, Len(s)))
  ELSE IF Len(s) >= 3 /\ SubSeq(s, 1, 3) = <<"%", "2", "F">>
       THEN <<"/">> \o decodeRec(SubSeq(s, 4, Len(s)))
  ELSE IF Len(s) >= 3 /\ SubSeq(s, 1, 3) = <<"%", "2", "5">>
       THEN <<"%">> \o decodeRec(SubSeq(s, 4, Len(s)))
  ELSE <<"URIError">>

decodeURIComponent(s) ==
  LET r == decodeRec(s)
  IN IF \E i \in 1..Len(r) : r[i] = "URIError"
     THEN [thrown |-> TRUE, value |-> <<>>]
     ELSE [thrown |-> FALSE, value |-> r]

\* the link is the base URL, "/download?path=" and an encoded part that
\* holds no blank and decodes to p
LinkFor(link, p) ==
  /\ ~link.thrown
  /\ Len(link.url) >= 2
  /\ link.url[1] = "http://localhost:8080"
  /\ link.url[2] = "/download?path="
  /\ LET part == SubSeq(link.url, 3, Len(link.url))
     IN /\ \A j \in 1..Len(part) : part[j] # " "
        /\ Len(part) = Len(p) + 2 * Cardinality({ i \in 1..Len(p) : p[i] = " " })
                              + 2 * Cardinality({ i \in 1..Len(p) : p[i] \in {"/", "%"} })
                              + 5 * Cardinality({ i \in 1..Len(p) : p[i] = "U+00E9" })
        /\ decodeURIComponent(part) = [thrown |-> FALSE, value |-> p]

\* C27 (as claimed): for every path, the rendered link is the base URL
\* followed by "/download?path=" and the percent-encoded path (a blank
\* becomes %20), and decoding the encoded part gives back the path.
C27_DownloadUrlEveryPath == href # NoLink => LinkFor(href, path)

\* C27 (amended): the same for every path without a lone surrogate.
C27_DownloadUrl ==
  (href # NoLink /\ \A i \in 1..Len(path) : path[i] # "U+D800")
    => LinkFor(href, path)

C27_Witness ==
  /\ path = <<"2", " ", "%">>
  /\ href = [thrown |-> FALSE,
             url |-> <<"http://localhost:8080", "/download?path=",
                       "2", "%", "2", "0", "%", "2", "5">>]

Range(s) == { s[i] : i \in 1..Len(s) }

\* C28 (as claimed): every id in the selection is an id of the current
\* field catalog.
C28_SelectionInCatalog == Range(selectedFields) \subseteq Range(fieldOptions)

\* C28 (amended): every id in the selection is an id of the current field
\* catalog or of the default list the catalog load delivered; so it is a
\* catalog id whenever the delivered defaults are catalog ids.
C28_SelectionFromCatalog ==
  Range(selectedFields) \subseteq (Range(fieldOptions) \cup Range(defaultFields))

C28_Witness ==
  /\ fieldOptions = <<"id", "name">>
  /\ defaultFields = <<"id">>
  /\ selectedFields = <<"name">>

\* the ids the selection is made of in FormSpec
FieldIds == {"id", "name"}

\* C29: a toggle of id removes it from the selection when it is there and
\* adds it otherwise, keeps the membership of every other id and changes
\* nothing else; a second toggle of the same id would give back the same
\* selection set.
C29_Toggle ==
  /\ [][\A i \in 1..Len(fieldOptions) :
          LET id == fieldOptions[i] IN
            (mounted /\ selectedFields' = toggleField(selectedFields, id)
               /\ selectedFields' # selectedFields)
              => /\ (id \in Range(selectedFields')) = (id \notin Range(selectedFields))
                 /\ \A o \in FieldIds \ {id} :
                      (o \in Range(selectedFields')) = (o \in Range(selectedFields))
                 /\ Range(toggleField(selectedFields', id)) = Range(selectedFields)]_vars
  /\ [][ToggleField => /\ selectedFields' # selectedFields
                       /\ UNCHANGED <<fieldOptions, defaultFields, formVars,
                                      jobVars, refVars, requests>>]_vars

C29_Witness ==
  /\ fieldOptions = <<"id", "name">>
  /\ selectedFields = <<"name", "id">>

\* C30: whatever the selection was, after selectAll it is the list of the
\* catalog ids, after selectDefault the default list the catalog delivered,
\* after clear empty; none of the three changes the job state, the channel,
\* the catalog, the form texts or the requests in flight.
C30_WholesaleSelection ==
  /\ [][SelectAll => (selectedFields' = fieldOptions
                        /\ Range(selectedFields') = Range(fieldOptions))]_vars
  /\ [][SelectDefault => selectedFields' = defaultFields]_vars
  /\ [][ClearFields => (selectedFields' = <<>> /\ Len(selectedFields') = 0)]_vars
  /\ [][(SelectAll \/ SelectDefault \/ ClearFields)
          => UNCHANGED <<jobVars, refVars, requests, nSubmits, fieldOptions,
                         defaultFields, formVars>>]_vars

C30_Witness ==
  /\ fieldOptions = <<"id", "name">>
  /\ defaultFields = <<"id">>
  /\ selectedFields = <<"id", "name">>
  /\ jobStatus = StatusRunning
  /\ OpenSources # {}

\* C31: a failed catalog fetch sets the catalog error in that one step,
\* leaves the catalog, the defaults and the selection empty and ends the
\* fetch for good: no later step starts it again, changes the catalog or
\* writes the catalog error a second time; and whatever the catalog fetch
\* did, a mounted form that is not submitting and holds a non-empty id list
\* can be submitted and the submission issues the create-job request.
C31_CatalogFailure ==
  /\ [][FetchFieldsFailed =>
          /\ fieldOptions' = <<>> /\ defaultFields' = <<>>
          /\ selectedFields' = <<>>
          /\ fieldsFetch' = "done"
          /\ mounted => (error' = ErrFields /\ errorBy' = "catalog")
          /\ UNCHANGED <<jobId, jobStatus, logs, result, isSubmitting,
                         refVars, requests, nSubmits>>]_vars
  /\ [][fieldsFetch = "done" =>
          /\ fieldsFetch' = "done"
          /\ fieldOptions' = fieldOptions
          /\ defaultFields' = defaultFields
          /\ errorBy' = "catalog" => errorBy = "catalog"]_vars
  /\ []((mounted /\ ~isSubmitting /\ nSubmits < MaxSubmits
           /\ parseTeamIds(teamInput) # <<>>)
          => ENABLED (OnSubmit /\ Cardinality(requests') = Cardinality(requests) + 1))

C31_Witness ==
  /\ fieldsFetch = "done"
  /\ fieldOptions = <<>>
  /\ defaultFields = <<>>
  /\ selectedFields = <<>>
  /\ nSubmits = 1
  /\ \E req \in requests : req.body.fields = <<>>
  /\ jobStatus = StatusStarting

\* the status events
StatusMessages ==
  { m \in Messages : m.kind = "object" /\ m.value.type = "status" }

\* C32: a status event applied to the job state sets the status to the
\* value it carries ("running" when it carries none) and leaves logs, error,
\* result, the job id, the submitting flag, the handle and the channel as
\* they were: the channel that delivered it is still open.
C32_StatusEvent ==
  [][\A k \in 1..Len(sources) : \A data \in StatusMessages :
       (mounted /\ StreamMessageOf(k, data))
         => /\ jobStatus' = (IF data.value.status = UNDEF THEN "running"
                             ELSE data.value.status)
            /\ UNCHANGED <<logs, error, result, jobId, isSubmitting>>
            /\ eventSourceRef' = eventSourceRef
            /\ sources' = sources
            /\ sources'[k].open]_vars

C32_Witness ==
  /\ mounted
  /\ jobStatus = StatusCompleted
  /\ result = NULL
  /\ error = NULL
  /\ isSubmitting
  /\ OpenSources = {1}
  /\ eventSourceRef = 1
  /\ Len(logs) = 1

\* C33: while the component is mounted, isSubmitting is true exactly when a
\* create-job request is in flight or a channel is open; it is set only by
\* a valid submission and cleared only by a step that ends the attempt: the
\* settlement of the request with a failure, an error or a result event, or
\* a transport error.
C33_SubmittingFlag ==
  /\ [](mounted => (isSubmitting <=> (requests # {} \/ OpenSources # {})))
  /\ [][(~isSubmitting /\ isSubmitting') => ValidSubmit]_vars
  /\ [][(isSubmitting /\ ~isSubmitting') =>
          \/ \E req \in requests : \E resp \in Responses(req.n) :
               resp.kind # "ok" /\ OnSubmitSettledWith(req, resp)
          \/ \E k \in OpenSources : \E data \in Messages :
               /\ data.kind = "object"
               /\ data.value.type \in {"error", "result"}
               /\ StreamMessageOf(k, data)
          \/ \E k \in OpenSources : TransportErrorOf(k)]_vars

C33_Witness ==
  /\ mounted
  /\ ~isSubmitting
  /\ nSubmits = 2
  /\ requests = {}
  /\ OpenSources = {}
  /\ errorBy = "submit"
  /\ sources = <<ClosedSource>>

\* the attempt of the mounted component has ended: nothing in flight, no
\* channel open, the submit button enabled again
AttemptEnded == requests = {} /\ OpenSources = {} /\ ~isSubmitting

\* C34: when the service answers every create-job request and every open
\* channel eventually delivers an error or a result event or fails, every
\* submission in progress leads to a state where the attempt has ended, so
\* that a new submission is possible (or the component has been unmounted
\* meanwhile, after which there is no form to submit).
C34_SubmissionEnds ==
  (mounted /\ isSubmitting) ~> (AttemptEnded \/ ~mounted)

C34_Witness ==
  /\ mounted
  /\ AttemptEnded
  /\ nSubmits = 2
  /\ terminal
  /\ result = "workbookA"
  /\ jobStatus = StatusCompleted
  /\ Len(sources) = 2

\* C35: at most one create-job request is in flight; a valid submission
\* starts only when no request is in flight and no channel is open; and
\* while a request is in flight or a channel is open no valid submission
\* can begin.
C35_OneAttemptAtATime ==
  /\ [](Cardinality(requests) <= 1)
  /\ [][ValidSubmit => (requests = {} /\ OpenSources = {} /\ ~isSubmitting)]_vars
  /\ []((requests # {} \/ OpenSources # {}) => ~ENABLED ValidSubmit)

C35_Witness ==
  /\ mounted
  /\ OpenSources # {}
  /\ nSubmits = 1
  /\ jobId = JobIdOf(1)
  /\ parseTeamIds(teamInput) # <<>>
  /\ isSubmitting

\* a submission whose parsed id list is empty
RejectedSubmit == OnSubmit /\ Len(parseTeamIds(teamInput)) = 0

\* C36: a submission rejected for an empty id list writes the validation
\* message to error and leaves the status, the log, the result, the job id,
\* the submitting flag, the handle and every channel as they were, and
\* issues no request.
C36_RejectionFrame ==
  [][RejectedSubmit =>
       /\ error' = "Provide at least one club ID."
       /\ jobStatus' = jobStatus
       /\ logs' = logs
       /\ result' = result
       /\ jobId' = jobId
       /\ isSubmitting' = isSubmitting
       /\ eventSourceRef' = eventSourceRef
       /\ sources' = sources
       /\ requests' = requests
       /\ nSubmits' = nSubmits]_vars

C36_Witness ==
  /\ mounted
  /\ errorBy = "validation"
  /\ error = ErrNoIds
  /\ jobStatus = StatusCompleted
  /\ result = "workbookA"
  /\ jobId = JobIdOf(1)
  /\ Len(logs) = 2
  /\ sources = <<ClosedSource>>

=========================================================================
